---- MODULE Spec2Model ----
(***************************************************************************)
(* State-machine model of xino-xano.py: the synonym-file parser            *)
(* (read_sinonims_file), the graph builder (build_synonym_graph), the      *)
(* fixed-length path finder (find_paths_with_n_intermediate_nodes) and the *)
(* command-line entry point (__main__).                                    *)
(***************************************************************************)
EXTENDS Integers, Sequences, FiniteSets

VARIABLES
    \* read_sinonims_file
    file,        \* the characters of the opened file
    lines,       \* the lines of the file still to be iterated
    line,        \* the line of the current iteration, as read
    afterTag,    \* positions of `line` left by the tag substitution
    afterParen,  \* positions of `line` left by the parenthesis substitution
    afterBrace,  \* positions of `line` left by the brace substitution
    wordsPos,    \* the words of the current line, as positions of `line`
    result,      \* the groups appended so far
    rpc,         \* "loop" while iterating, "returned" after return
    \* build_synonym_graph
    synonym_groups,  \* the argument: a list of groups, each a list of words
    gi,              \* index of the group the outer loop takes next
    G,               \* the graph: [nodes, edges], an edge being the set of its ends
    bpc,             \* "idle", "loop", "returned"
    \* find_paths_with_n_intermediate_nodes
    word1, word2, n_intermediate, max_paths,   \* the arguments (with G)
    nxTrivial,     \* whether the installed networkx yields [source] when source is the target
    stack,         \* the generator's stack of neighbour iterators (what each has left)
    current_path,  \* the generator's path under exploration
    paths,         \* paths_with_n_intermediate
    raised,        \* "none", "NodeNotFound" or "NetworkXNoPath"
    raisedNode,    \* the node a NodeNotFound names
    fpc,           \* "idle", "start", "enumerating", "returned", "raised"
    \* __main__
    argv,           \* sys.argv: the program name, then the arguments
    n_arg,          \* n_intermediate once parsed
    printed,        \* what has been printed, in order
    parserInvoked,  \* find_synonym_paths has called read_sinonims_file
    exitCode,       \* the process exit code, -1 while running
    mpc             \* "idle", "start", "args", "call", "exit"

parseVars == <<file, lines, line, afterTag, afterParen, afterBrace, wordsPos, result, rpc>>

buildVars == <<synonym_groups, gi, bpc>>

findVars == <<word1, word2, n_intermediate, max_paths, nxTrivial, stack, current_path,
              paths, raised, raisedNode, fpc>>

mainVars == <<argv, n_arg, printed, parserInvoked, exitCode, mpc>>

vars == <<parseVars, buildVars, G, findVars, mainVars>>

----------------------------------------------------------------------------
\* Bounds

MaxFileLen == 4

MaxLexiconWords == 4

MaxIntermediate == 2

MaxPaths == 3

MaxArgLen == 3

----------------------------------------------------------------------------
\* Generic helpers

RECURSIVE SeqsUpTo(_, _)
SeqsUpTo(S, n) ==
    IF n = 0 THEN {<<>>}
    ELSE LET shorter == SeqsUpTo(S, n - 1)
         IN  shorter \cup {Append(s, x) : s \in {t \in shorter : Len(t) = n - 1}, x \in S}

Range(s) == {s[i] : i \in 1..Len(s)}

Min(S) == CHOOSE x \in S : \A y \in S : x <= y

----------------------------------------------------------------------------
\* networkx.Graph as the program uses it

Words == {"a", "b", "c", "d"}

\* nx.Graph(): no nodes, no edges.
EmptyGraph == [nodes |-> {}, edges |-> {}]

\* G.add_edge(u, v): both ends become nodes if they are not yet, and the
\* undirected edge is recorded once; u = v records a self-loop.
AddEdge(g, u, v) == [nodes |-> g.nodes \cup {u, v}, edges |-> g.edges \cup {{u, v}}]

\* G[u]: the neighbours of u (u itself when it has a self-loop).
Neighbors(g, u) == {v \in g.nodes : {u, v} \in g.edges}

NoNode == "-"

\* The path finder before it is called.
FindIdle ==
    /\ word1 = NoNode
    /\ word2 = NoNode
    /\ n_intermediate = 0
    /\ max_paths = 0
    /\ nxTrivial = FALSE
    /\ stack = <<>>
    /\ current_path = <<>>
    /\ paths = <<>>
    /\ raised = "none"
    /\ raisedNode = NoNode
    /\ fpc = "idle"

\* The entry point when the module is not run as a script.
MainIdle ==
    /\ argv = <<>>
    /\ n_arg = 0
    /\ printed = <<>>
    /\ parserInvoked = FALSE
    /\ exitCode = -1
    /\ mpc = "idle"

\* The parser and the graph builder before they are called.
ParseIdle ==
    /\ file = <<>>
    /\ lines = <<>>
    /\ line = <<>>
    /\ afterTag = <<>>
    /\ afterParen = <<>>
    /\ afterBrace = <<>>
    /\ wordsPos = <<>>
    /\ result = <<>>
    /\ rpc = "idle"

BuildIdle ==
    /\ synonym_groups = <<>>
    /\ gi = 1
    /\ bpc = "idle"

----------------------------------------------------------------------------
\* read_sinonims_file

NL == "\n"

FileChars == {"a", ",", ":", "(", ")", "{", "}", " ", NL}

Whitespace == {" ", NL}

\* Iterating a text file yields its lines, each keeping its terminating newline;
\* the last line may lack one.
RECURSIVE FileLines(_)
FileLines(f) ==
    IF f = <<>> THEN <<>>
    ELSE LET nls == {i \in 1..Len(f) : f[i] = NL}
             end == IF nls = {} THEN Len(f) ELSE Min(nls)
         IN  <<SubSeq(f, 1, end)>> \o FileLines(SubSeq(f, end + 1, Len(f)))

\* A text derived from line l is the sequence t of the positions of l it keeps.
Text(l, t) == [i \in 1..Len(t) |-> l[t[i]]]

\* re.sub(r'^.*?:', '', line): '.' matches no newline, the match is anchored at
\* the start and is the shortest one, so it ends at the first ':'.
StripTag(l, t) ==
    LET colons == {i \in 1..Len(t) : l[t[i]] = ":" /\ \A k \in 1..(i - 1) : l[t[k]] # NL}
    IN  IF colons = {} THEN t ELSE SubSeq(t, Min(colons) + 1, Len(t))

\* The substitution removes only the first match (re.sub with count=1).
RECURSIVE RemoveFirstFrom(_, _, _, _, _)
RemoveFirstFrom(l, t, open, close, k) ==
    IF k > Len(t) THEN <<>>
    ELSE LET closes == {j \in (k + 1)..Len(t) : l[t[j]] = close}
         IN  IF l[t[k]] = open /\ closes # {}
             THEN SubSeq(t, Min(closes) + 1, Len(t))
             ELSE <<t[k]>> \o RemoveFirstFrom(l, t, open, close, k + 1)

\* re.sub(r'\([^)]*\)', '', line) and re.sub(r'\{[^}]*\}', '', line), scanning
\* from index k: the leftmost match starts at the first opening delimiter that
\* has a closing one after it and ends at the first closing delimiter after
\* it; scanning resumes after the match.
RECURSIVE RemoveEnclosedFrom(_, _, _, _, _)
RemoveEnclosedFrom(l, t, open, close, k) ==
    IF k > Len(t) THEN <<>>
    ELSE LET closes == {j \in (k + 1)..Len(t) : l[t[j]] = close}
         IN  IF l[t[k]] = open /\ closes # {}
             THEN RemoveEnclosedFrom(l, t, open, close, Min(closes) + 1)
             ELSE <<t[k]>> \o RemoveEnclosedFrom(l, t, open, close, k + 1)

RemoveParens(l, t) == RemoveEnclosedFrom(l, t, "(", ")", 1)

RemoveBraces(l, t) == RemoveEnclosedFrom(l, t, "{", "}", 1)

\* line.split(','): the pieces between the commas, empty pieces included.
RECURSIVE SplitCommas(_, _)
SplitCommas(l, t) ==
    LET commas == {i \in 1..Len(t) : l[t[i]] = ","}
    IN  IF commas = {} THEN <<t>>
        ELSE <<SubSeq(t, 1, Min(commas) - 1)>>
             \o SplitCommas(l, SubSeq(t, Min(commas) + 1, Len(t)))

\* w.strip(): leading and trailing whitespace dropped.
Strip(l, t) ==
    LET solid == {i \in 1..Len(t) : l[t[i]] \notin Whitespace}
    IN  IF solid = {} THEN <<>>
        ELSE SubSeq(t, Min(solid), CHOOSE i \in solid : \A j \in solid : j <= i)

\* [w.strip() for w in line.split(',') if w.strip()]
SplitWords(l, t) ==
    LET pieces   == SplitCommas(l, t)
        stripped == [i \in 1..Len(pieces) |-> Strip(l, pieces[i])]
    IN  SelectSeq(stripped, LAMBDA w : w # <<>>)

InitParse ==
    /\ file \in SeqsUpTo(FileChars, MaxFileLen)
    /\ lines = FileLines(file)
    /\ line = <<>>
    /\ afterTag = <<>>
    /\ afterParen = <<>>
    /\ afterBrace = <<>>
    /\ wordsPos = <<>>
    /\ result = <<>>
    /\ rpc = "loop"
    /\ BuildIdle
    /\ G = EmptyGraph
    /\ FindIdle
    /\ MainIdle

\* One iteration of `for line in f` (lines 17-26).
ReadLine ==
    /\ rpc = "loop"
    /\ lines # <<>>
    /\ LET l  == Head(lines)
           t1 == StripTag(l, [i \in 1..Len(l) |-> i])
           t2 == RemoveParens(l, t1)
           t3 == RemoveBraces(l, t2)
           ws == SplitWords(l, t3)
       IN  /\ line' = l
           /\ afterTag' = t1
           /\ afterParen' = t2
           /\ afterBrace' = t3
           /\ wordsPos' = ws
           /\ result' = IF ws # <<>>
                        THEN Append(result, [i \in 1..Len(ws) |-> Text(l, ws[i])])
                        ELSE result
    /\ lines' = Tail(lines)
    /\ UNCHANGED <<file, rpc, buildVars, G, findVars, mainVars>>

\* The end of the file: `return result` (line 27).
ReturnResult ==
    /\ rpc = "loop"
    /\ lines = <<>>
    /\ rpc' = "returned"
    /\ UNCHANGED <<file, lines, line, afterTag, afterParen, afterBrace, wordsPos, result>>
    /\ UNCHANGED <<buildVars, G, findVars, mainVars>>

NextParse == ReadLine \/ ReturnResult

SpecParse == InitParse /\ [][NextParse]_vars

----------------------------------------------------------------------------
\* build_synonym_graph

\* The inner loop starts two places after i.
InnerStartSkip(i) == i + 2

\* range(i + 1, len(group)): the first j of the inner loop.
InnerStart(i) == i + 1

\* The two nested loops over one group (lines 42-44), from position (i, j) on.
RECURSIVE AddPairsFrom(_, _, _, _)
AddPairsFrom(g, group, i, j) ==
    IF i > Len(group) THEN g
    ELSE IF j > Len(group) THEN AddPairsFrom(g, group, i + 1, InnerStart(i + 1))
    ELSE AddPairsFrom(AddEdge(g, group[i], group[j]), group, i, j + 1)

AddGroup(g, group) == AddPairsFrom(g, group, 1, InnerStart(1))

\* The whole function: the groups taken in order, starting from the empty graph.
RECURSIVE AddGroupsFrom(_, _, _)
AddGroupsFrom(g, groups, k) ==
    IF k > Len(groups) THEN g
    ELSE AddGroupsFrom(AddGroup(g, groups[k]), groups, k + 1)

build_synonym_graph(groups) == AddGroupsFrom(EmptyGraph, groups, 1)

\* What read_sinonims_file can return: lists of non-empty groups of words
\* (line 25), here those holding at most n words in all.
RECURSIVE Lexicons(_)
Lexicons(n) ==
    {<<>>} \cup
    UNION {{<<grp>> \o rest :
                grp \in {w \in SeqsUpTo(Words, k) : Len(w) = k},
                rest \in Lexicons(n - k)} : k \in 1..n}

InitBuild ==
    /\ ParseIdle
    /\ synonym_groups \in Lexicons(MaxLexiconWords)
    /\ gi = 1
    /\ G = EmptyGraph
    /\ bpc = "loop"
    /\ FindIdle
    /\ MainIdle

\* One iteration of `for group in synonym_groups` (lines 41-44).
BuildGroup ==
    /\ bpc = "loop"
    /\ gi <= Len(synonym_groups)
    /\ G' = AddGroup(G, synonym_groups[gi])
    /\ gi' = gi + 1
    /\ UNCHANGED <<synonym_groups, bpc, parseVars, findVars, mainVars>>

\* `return G` (line 45).
ReturnGraph ==
    /\ bpc = "loop"
    /\ gi > Len(synonym_groups)
    /\ bpc' = "returned"
    /\ UNCHANGED <<synonym_groups, gi, G, parseVars, findVars, mainVars>>

NextBuild == BuildGroup \/ ReturnGraph

SpecBuild == InitBuild /\ [][NextBuild]_vars

----------------------------------------------------------------------------
\* find_paths_with_n_intermediate_nodes

\* nx.has_path(G, s, t): a search from s reaches t.
RECURSIVE Reached(_, _)
Reached(g, seen) ==
    LET more == seen \cup UNION {Neighbors(g, u) : u \in seen}
    IN  IF more = seen THEN seen ELSE Reached(g, more)

\* The connectivity check is skipped.
has_path_skipped(g, s, t) == TRUE

has_path(g, s, t) == t \in Reached(g, {s})

\* The node the existence checks (lines 69-72) reject, NoNode when both exist.
MissingNode(g, w1, w2) ==
    IF w1 \notin g.nodes THEN w1 ELSE IF w2 \notin g.nodes THEN w2 ELSE NoNode

\* The number of intermediate nodes itself is passed as the cutoff.
CutoffIntermediate(target_path_length) == target_path_length - 2

\* cutoff=target_path_length (line 81): the generator yields the simple paths
\* of at most `cutoff` edges.
Cutoff(target_path_length) == target_path_length

\* Every yielded path is kept.
KeepPathAny(path, target_path_length) == TRUE

\* Shorter paths are kept too.
KeepPathUpTo(path, target_path_length) == Len(path) <= target_path_length

\* len(path) == target_path_length (line 84)
KeepPath(path, target_path_length) == Len(path) = target_path_length

\* len(paths_with_n_intermediate) >= max_paths (line 87), tested after the append
LimitReached(n, limit) == n >= limit

\* The graphs a caller can pass: any nodes among Words, any edges between
\* distinct nodes, and possibly a self-loop (on LoopWord, to keep the set small).
Pairs(N) == {e \in SUBSET N : Cardinality(e) = 2}

LoopWord == "a"

Graphs ==
    UNION {{[nodes |-> N, edges |-> E \cup L] :
                E \in SUBSET Pairs(N),
                L \in {{}} \cup {{{w}} : w \in N \cap {LoopWord}}} : N \in SUBSET Words}

InitFind ==
    /\ ParseIdle
    /\ BuildIdle
    /\ MainIdle
    /\ G \in Graphs
    /\ word1 \in Words
    /\ word2 \in Words
    /\ n_intermediate \in (-1)..MaxIntermediate
    /\ max_paths \in 0..MaxPaths
    /\ nxTrivial \in BOOLEAN
    /\ stack = <<>>
    /\ current_path = <<>>
    /\ paths = <<>>
    /\ raised = "none"
    /\ raisedNode = NoNode
    /\ fpc = "start"

FindUnchanged == UNCHANGED <<parseVars, buildVars, mainVars, G, word1, word2,
                             n_intermediate, max_paths, nxTrivial>>

\* Lines 69-72: a word that is not a node raises NodeNotFound naming it.
RaiseNodeNotFound ==
    /\ fpc = "start"
    /\ MissingNode(G, word1, word2) # NoNode
    /\ raised' = "NodeNotFound"
    /\ raisedNode' = MissingNode(G, word1, word2)
    /\ fpc' = "raised"
    /\ UNCHANGED <<stack, current_path, paths>>
    /\ FindUnchanged

\* Lines 75-76: no path at all between the two nodes raises NetworkXNoPath.
RaiseNoPath ==
    /\ fpc = "start"
    /\ MissingNode(G, word1, word2) = NoNode
    /\ ~has_path(G, word1, word2)
    /\ raised' = "NetworkXNoPath"
    /\ fpc' = "raised"
    /\ UNCHANGED <<stack, current_path, paths, raisedNode>>
    /\ FindUnchanged

\* Lines 80-81: the empty result list and the generator nx.all_simple_paths(graph,
\* word1, word2, cutoff). The search starts from a pseudo-iterator holding the
\* source alone. A networkx that yields no single-node path returns an empty
\* generator when the source is the target or the cutoff is below 1; one that
\* does returns an empty generator when the cutoff is negative.
StartEnumeration ==
    /\ fpc = "start"
    /\ MissingNode(G, word1, word2) = NoNode
    /\ has_path(G, word1, word2)
    /\ paths' = <<>>
    /\ current_path' = <<>>
    /\ stack' = IF nxTrivial
                THEN IF Cutoff(n_intermediate + 2) >= 0 THEN <<{word1}>> ELSE <<>>
                ELSE IF word1 = word2 \/ Cutoff(n_intermediate + 2) < 1
                     THEN <<>> ELSE <<{word1}>>
    /\ fpc' = "enumerating"
    /\ UNCHANGED <<raised, raisedNode>>
    /\ FindUnchanged

\* What the iterator on top of the stack can still deliver: its remaining
\* neighbours that are not on the current path.
Candidates == IF stack = <<>> THEN {} ELSE stack[Len(stack)] \ Range(current_path)

\* The generator finds the top iterator exhausted and steps back.
DfsBacktrack ==
    /\ fpc = "enumerating"
    /\ stack # <<>>
    /\ Candidates = {}
    /\ stack' = SubSeq(stack, 1, Len(stack) - 1)
    /\ current_path' = IF current_path = <<>> THEN <<>>
                       ELSE SubSeq(current_path, 1, Len(current_path) - 1)
    /\ UNCHANGED <<paths, raised, raisedNode, fpc>>
    /\ FindUnchanged

\* The generator takes a next node that is not the target: it extends the
\* current path through it while the path is shorter than the cutoff. The
\* iterator delivers the neighbours in the graph's insertion order, which the
\* caller's construction of the graph fixes: any order is possible.
DfsExtend ==
    /\ fpc = "enumerating"
    /\ \E next_node \in Candidates :
        /\ next_node # word2
        /\ IF Len(current_path) < Cutoff(n_intermediate + 2)
           THEN /\ current_path' = Append(current_path, next_node)
                /\ stack' = Append([stack EXCEPT ![Len(stack)] = @ \ {next_node}],
                                   Neighbors(G, next_node))
           ELSE /\ current_path' = current_path
                /\ stack' = [stack EXCEPT ![Len(stack)] = @ \ {next_node}]
    /\ UNCHANGED <<paths, raised, raisedNode, fpc>>
    /\ FindUnchanged

\* The generator reaches the target and yields the path; the loop body (lines
\* 84-88) keeps it if it has the wanted length and breaks out, returning the
\* list (line 90), once the list has reached max_paths. The generator does not
\* search beyond the target.
DfsYield ==
    /\ fpc = "enumerating"
    /\ word2 \in Candidates
    /\ LET path == Append(current_path, word2)
           keep == KeepPath(path, n_intermediate + 2)
       IN  /\ paths' = IF keep THEN Append(paths, path) ELSE paths
           /\ fpc' = IF keep /\ LimitReached(Len(paths) + 1, max_paths)
                     THEN "returned" ELSE "enumerating"
    /\ stack' = [stack EXCEPT ![Len(stack)] = @ \ {word2}]
    /\ UNCHANGED <<current_path, raised, raisedNode>>
    /\ FindUnchanged

\* The generator is exhausted: the loop ends and the list is returned (line 90).
ReturnPaths ==
    /\ fpc = "enumerating"
    /\ stack = <<>>
    /\ fpc' = "returned"
    /\ UNCHANGED <<stack, current_path, paths, raised, raisedNode>>
    /\ FindUnchanged

NextFind ==
    \/ RaiseNodeNotFound
    \/ RaiseNoPath
    \/ StartEnumeration
    \/ DfsBacktrack
    \/ DfsExtend
    \/ DfsYield
    \/ ReturnPaths

SpecFind == InitFind /\ [][NextFind]_vars

----------------------------------------------------------------------------
\* __main__

ArgChars == {"0", "1", "-", "+", "_", " ", "x"}

Digits == {"0", "1"}

DigitValue(c) == IF c = "1" THEN 1 ELSE 0

\* s.strip() on a plain string.
StripString(s) == Strip(s, [i \in 1..Len(s) |-> i])

\* The digits of an integer literal read from position k on, acc being the
\* value so far: digits, with single underscores allowed between digits.
\* -1 stands for a malformed literal.
RECURSIVE ReadDigits(_, _, _)
ReadDigits(s, k, acc) ==
    IF k > Len(s) THEN acc
    ELSE IF s[k] \in Digits THEN ReadDigits(s, k + 1, 10 * acc + DigitValue(s[k]))
    ELSE IF s[k] = "_" /\ k > 1 /\ k < Len(s) /\ s[k - 1] \in Digits /\ s[k + 1] \in Digits
         THEN ReadDigits(s, k + 1, acc)
    ELSE -1

\* int(sys.argv[3]) (line 132): surrounding whitespace is ignored, one sign may
\* lead, and the rest must be decimal digits; anything else raises ValueError.
int(s) ==
    LET pos    == StripString(s)
        t      == [i \in 1..Len(pos) |-> s[pos[i]]]
        signed == t # <<>> /\ t[1] \in {"+", "-"}
        body   == IF signed THEN Tail(t) ELSE t
        v      == IF body = <<>> THEN -1 ELSE ReadDigits(body, 1, 0)
    IN  IF v < 0 THEN [ok |-> FALSE, value |-> 0]
        ELSE [ok |-> TRUE, value |-> IF signed /\ t[1] = "-" THEN 0 - v ELSE v]

\* Extra arguments are let through.
ArgcAtLeast(args) == Len(args) >= 4

\* len(sys.argv) != 4 (line 124), negated.
ArgcOk(args) == Len(args) = 4

Prog == <<"x">>

WordArg == <<"a">>

Argvs ==
    {<<Prog>>, <<Prog, WordArg>>, <<Prog, WordArg, WordArg>>}
    \cup {<<Prog, WordArg, WordArg, c>> : c \in SeqsUpTo(ArgChars, MaxArgLen)}
    \cup {<<Prog, WordArg, WordArg, c, WordArg>> : c \in SeqsUpTo(ArgChars, MaxArgLen)}

\* What the try block of lines 137-156 ends with, each printing its message.
Outcomes == {"paths", "no paths", "FileNotFoundError", "NetworkXNoPath", "NodeNotFound",
             "Exception"}

InitMain ==
    /\ ParseIdle
    /\ BuildIdle
    /\ G = EmptyGraph
    /\ FindIdle
    /\ argv \in Argvs
    /\ n_arg = 0
    /\ printed = <<>>
    /\ parserInvoked = FALSE
    /\ exitCode = -1
    /\ mpc = "start"

MainUnchanged == UNCHANGED <<parseVars, buildVars, G, findVars, argv>>

\* Lines 124-127: the wrong number of arguments prints the usage and exits 1.
MainUsage ==
    /\ mpc = "start"
    /\ ~ArgcOk(argv)
    /\ printed' = Append(printed, "usage")
    /\ exitCode' = 1
    /\ mpc' = "exit"
    /\ UNCHANGED <<n_arg, parserInvoked>>
    /\ MainUnchanged

\* Lines 129-130: the two words are taken from the arguments.
MainTakeWords ==
    /\ mpc = "start"
    /\ ArgcOk(argv)
    /\ mpc' = "args"
    /\ UNCHANGED <<n_arg, printed, parserInvoked, exitCode>>
    /\ MainUnchanged

\* Lines 131-135, ValueError: the count is no integer; a message and exit 1.
MainBadCount ==
    /\ mpc = "args"
    /\ ~int(argv[4]).ok
    /\ printed' = Append(printed, "n_intermediate_nodes must be an integer")
    /\ exitCode' = 1
    /\ mpc' = "exit"
    /\ UNCHANGED <<n_arg, parserInvoked>>
    /\ MainUnchanged

\* Lines 131-132: the count parses.
MainCount ==
    /\ mpc = "args"
    /\ int(argv[4]).ok
    /\ n_arg' = int(argv[4]).value
    /\ mpc' = "call"
    /\ UNCHANGED <<printed, parserInvoked, exitCode>>
    /\ MainUnchanged

\* Lines 137-156: find_synonym_paths is called, which calls read_sinonims_file
\* first (line 117); whatever the call ends with is printed, and the script
\* ends normally (exit code 0).
MainRun ==
    /\ mpc = "call"
    /\ parserInvoked' = TRUE
    /\ \E o \in Outcomes : printed' = Append(printed, o)
    /\ exitCode' = 0
    /\ mpc' = "exit"
    /\ UNCHANGED <<n_arg>>
    /\ MainUnchanged

NextMain == MainUsage \/ MainTakeWords \/ MainBadCount \/ MainCount \/ MainRun

SpecMain == InitMain /\ [][NextMain]_vars

----------------------------------------------------------------------------
\* Claims about read_sinonims_file (checked under SpecParse)

\* The positions of text t (of line l) lying between an opening delimiter and
\* the next closing delimiter after it, both delimiters included.
Enclosed(l, t, open, close) ==
    {t[p] : p \in {q \in 1..Len(t) :
        \E i \in 1..q : \E j \in q..Len(t) :
            /\ i < j
            /\ l[t[i]] = open
            /\ l[t[j]] = close
            /\ \A m \in (i + 1)..(j - 1) : l[t[m]] # close}}

WholeLine == [i \in 1..Len(line) |-> i]

WordPositions == UNION {Range(wordsPos[i]) : i \in 1..Len(wordsPos)}

\* C8 as stated: no word of the group produced for a line holds a character
\* that, in the input line, lay between a '(' and the next ')' or between a
\* '{' and the next '}', delimiters included.
C8_NoEnclosedOfInputLine ==
    WordPositions \cap (Enclosed(line, WholeLine, "(", ")")
                        \cup Enclosed(line, WholeLine, "{", "}")) = {}

\* C8 amended: no word of the group produced for a line holds a character
\* that lay between a '(' and the next ')' in the line as left by the tag
\* removal, nor one that lay between a '{' and the next '}' in the line as
\* left by the parenthesis removal, delimiters included.
C8_NoEnclosedOfStagedLine ==
    WordPositions \cap (Enclosed(line, afterTag, "(", ")")
                        \cup Enclosed(line, afterParen, "{", "}")) = {}

\* A line with an enclosed span has been read and has produced a word.
C8_Witness ==
    /\ wordsPos # <<>>
    /\ Enclosed(line, afterTag, "(", ")") # {}
    /\ result # <<>>

----------------------------------------------------------------------------
\* Claims about build_synonym_graph (checked under SpecBuild)

InSomeGroup(w) == \E k \in 1..Len(synonym_groups) : w \in Range(synonym_groups[k])

InSameGroup(u, v) ==
    \E k \in 1..Len(synonym_groups) : {u, v} \subseteq Range(synonym_groups[k])

Perms(n) == {p \in [1..n -> 1..n] : \A i, j \in 1..n : p[i] = p[j] => i = j}

Permuted(seq, p) == [i \in 1..Len(seq) |-> seq[p[i]]]

\* C4 as stated: in the returned graph a word is a node if and only if it
\* appears in at least one group, a group of one word included.
C4_NodeIffInSomeGroup ==
    bpc = "returned" => \A w \in Words : w \in G.nodes <=> InSomeGroup(w)

\* C5 as stated: the returned graph has no self-loop, whatever the lexicon.
C5_NoSelfLoops ==
    bpc = "returned" => \A w \in Words : {w} \notin G.edges

\* C6: in the returned graph two distinct words are joined by an edge if and
\* only if some group holds both, and the edge set is the same for every
\* order of the groups and every order of the words inside a group.
C6_EdgeIffSameGroup ==
    bpc = "returned" =>
        /\ \A u, v \in Words : u # v => ({u, v} \in G.edges <=> InSameGroup(u, v))
        /\ \A p \in Perms(Len(synonym_groups)) :
               build_synonym_graph(Permuted(synonym_groups, p)).edges = G.edges
        /\ \A k \in 1..Len(synonym_groups) : \A q \in Perms(Len(synonym_groups[k])) :
               build_synonym_graph(
                   [synonym_groups EXCEPT ![k] = Permuted(synonym_groups[k], q)]).edges
               = G.edges

\* A graph returned for two groups that share a word, with a pair of words
\* joined and a pair of words not joined.
C6_Witness ==
    /\ bpc = "returned"
    /\ Len(synonym_groups) >= 2
    /\ Range(synonym_groups[1]) \cap Range(synonym_groups[2]) # {}
    /\ Range(synonym_groups[1]) # Range(synonym_groups[2])
    /\ \E u, v \in G.nodes : u # v /\ {u, v} \in G.edges
    /\ \E u, v \in G.nodes : u # v /\ {u, v} \notin G.edges

----------------------------------------------------------------------------
\* Claims about find_paths_with_n_intermediate_nodes (checked under SpecFind)

Adjacent(g, u, v) == {u, v} \in g.edges

\* p is a simple path of g from s to t with exactly len nodes.
IsSimplePath(g, p, s, t, len) ==
    /\ Len(p) = len
    /\ len >= 1
    /\ p[1] = s
    /\ p[len] = t
    /\ \A i \in 1..len : p[i] \in g.nodes
    /\ \A i \in 1..(len - 1) : Adjacent(g, p[i], p[i + 1])
    /\ \A i, j \in 1..len : p[i] = p[j] => i = j

SimplePaths(g, s, t, len) ==
    IF len < 1 THEN {}
    ELSE {p \in [1..len -> g.nodes] : IsSimplePath(g, p, s, t, len)}

\* s and t lie in the same connected component: every set of nodes that holds
\* s and is closed under adjacency holds t.
Connected(g, s, t) ==
    \A S \in SUBSET g.nodes :
        (s \in S /\ \A u \in S : \A v \in g.nodes : Adjacent(g, u, v) => v \in S) => t \in S

BothNodes == word1 \in G.nodes /\ word2 \in G.nodes

\* C1: each path in the result starts at the source, ends at the target, has
\* consecutive nodes adjacent in the graph, repeats no node and has exactly
\* n_intermediate + 2 nodes.
C1_PathsAreSimpleOfExactLength ==
    \A i \in 1..Len(paths) :
        IsSimplePath(G, paths[i], word1, word2, n_intermediate + 2)

\* A call has returned two paths with at least one intermediate node.
C1_Witness ==
    /\ fpc = "returned"
    /\ n_intermediate >= 1
    /\ Len(paths) >= 2

\* C2 as stated: for every max_paths, 0 included, the result never holds more
\* than max_paths paths.
C2_AtMostMaxPaths == Len(paths) <= max_paths

\* C3: when the call returns and the graph has fewer than max_paths simple
\* paths from source to target with n_intermediate (>= 0) interior nodes, the
\* result holds each of them exactly once.
C3_AllPathsWhenFewerThanMax ==
    LET all == SimplePaths(G, word1, word2, n_intermediate + 2)
    IN  (fpc = "returned" /\ n_intermediate >= 0 /\ Cardinality(all) < max_paths) =>
            /\ Range(paths) = all
            /\ Len(paths) = Cardinality(all)

\* A call has returned with two qualifying paths in the graph and a larger cap.
C3_Witness ==
    /\ fpc = "returned"
    /\ n_intermediate >= 1
    /\ Cardinality(SimplePaths(G, word1, word2, n_intermediate + 2)) = 2
    /\ max_paths > 2
    /\ Len(paths) = 2

\* C7: the call raises NodeNotFound when source or target is no node (naming
\* the source when the source is missing), raises NetworkXNoPath exactly when
\* both are nodes of different connected components, and otherwise returns a
\* list without raising, whatever n_intermediate and max_paths are.
C7_OutcomeClassification ==
    fpc \in {"returned", "raised"} =>
        /\ ~BothNodes =>
              /\ fpc = "raised"
              /\ raised = "NodeNotFound"
              /\ word1 \notin G.nodes => raisedNode = word1
        /\ raised = "NetworkXNoPath" <=> (BothNodes /\ ~Connected(G, word1, word2))
        /\ (BothNodes /\ Connected(G, word1, word2)) => (fpc = "returned" /\ raised = "none")
        /\ fpc = "raised" <=> raised # "none"

\* A call on two nodes of different components has raised NetworkXNoPath.
C7_Witness ==
    /\ fpc = "raised"
    /\ raised = "NetworkXNoPath"
    /\ BothNodes
    /\ G.edges # {}
    /\ n_intermediate >= 1

\* C10: when source and target are the same node and n_intermediate is 0, the
\* call raises nothing and its result is empty.
C10_SameWordNoPaths ==
    (word1 = word2 /\ word1 \in G.nodes /\ n_intermediate = 0) =>
        /\ fpc # "raised"
        /\ raised = "none"
        /\ paths = <<>>

\* Such a call has returned, the generator having yielded the single-node path.
C10_Witness ==
    /\ word1 = word2
    /\ word1 \in G.nodes
    /\ n_intermediate = 0
    /\ nxTrivial
    /\ max_paths > 0
    /\ fpc = "returned"
    /\ paths = <<>>

----------------------------------------------------------------------------
\* Claims about __main__ (checked under SpecMain)

\* s is an integer literal as int() reads it: whitespace, an optional sign,
\* then digits in which an underscore stands only between two digits,
\* whitespace.
IsIntegerLiteral(s) ==
    \E i \in 1..Len(s) : \E j \in i..Len(s) :
        /\ \A k \in 1..(i - 1) : s[k] \in Whitespace
        /\ \A k \in (j + 1)..Len(s) : s[k] \in Whitespace
        /\ LET first == IF s[i] \in {"+", "-"} THEN i + 1 ELSE i
           IN  /\ first <= j
               /\ s[first] \in Digits
               /\ s[j] \in Digits
               /\ \A k \in first..j : s[k] \in Digits \cup {"_"}
               /\ \A k \in first..(j - 1) : ~(s[k] = "_" /\ s[k + 1] = "_")

\* An integer literal below zero: a minus sign and a digit other than 0.
IsNegativeLiteral(s) ==
    /\ IsIntegerLiteral(s)
    /\ \E i \in 1..Len(s) : s[i] = "-"
    /\ \E i \in 1..Len(s) : s[i] \in Digits \ {"0"}

UsageError ==
    /\ exitCode = 1
    /\ ~parserInvoked
    /\ printed \in {<<"usage">>, <<"n_intermediate_nodes must be an integer">>}

\* C9 as stated: a run is accepted only with exactly three arguments of which
\* the third is a non-negative integer; every other run ends in a usage error
\* with a non-zero exit code and the parser never invoked.
C9_RejectsAllButNonNegativeCount ==
    LET good == Len(argv) = 4 /\ IsIntegerLiteral(argv[4]) /\ ~IsNegativeLiteral(argv[4])
    IN  /\ parserInvoked => good
        /\ (mpc = "exit" /\ ~good) => UsageError

\* C9 amended: a run is accepted only with exactly three arguments of which
\* the third is an integer, negative ones included; every other run (wrong
\* number of arguments, a count that is no integer) ends in a usage error with
\* exit code 1 and the parser never invoked.
C9_RejectsAllButIntegerCount ==
    LET good == Len(argv) = 4 /\ IsIntegerLiteral(argv[4])
    IN  /\ parserInvoked => good
        /\ (mpc = "exit" /\ ~good) => UsageError
        /\ (mpc = "exit" /\ good) => (parserInvoked /\ exitCode = 0)

\* A run with three arguments and a count that is no integer has ended.
C9_Witness ==
    /\ mpc = "exit"
    /\ Len(argv) = 4
    /\ ~IsIntegerLiteral(argv[4])
    /\ argv[4] # <<>>
    /\ UsageError

====
